---- MODULE Spec2Model ----
(***************************************************************************)
(* Model of the dual-model generation workflow (ModernHybridWorkflow) and  *)
(* of the batch orchestration around it (BatchProcessor).                   *)
(*                                                                         *)
(* Five specifications share the engine operators:                         *)
(*   Spec        one BatchProcessor running batches on a thread pool;      *)
(*   EngineSpec  construction of the workflow and calls of _select_model   *)
(*               and generate_card on it;                                  *)
(*   CardSpec    generate_card step by step (select, prompt, provider      *)
(*               call, validate, persist), the files it writes, and        *)
(*               generate_full_concept_set;                                *)
(*   RulesSpec   the image validators, the key checks, the priority and    *)
(*               the sort, each applied to inputs from bounded sets;       *)
(*   JobSpec     BatchJobManager: submissions, cancellations and the       *)
(*               queue tasks on one event loop.                            *)
(* Money is counted in tenths of a cent (0.005 USD = 5).                   *)
(***************************************************************************)
EXTENDS Integers, Sequences, FiniteSets, TLC

\* ------------------------------------------------------------------ bounds
MaxRequests == 3
MaxWorkers == 3
MaxBatches == 1
MaxMixed == 2
MaxFaults == 1
MaxCalls == 2
MaxClock == 2
MaxJobs == 3
MaxSort == 3
MaxPriority == 3

\* --------------------------------------------------------------- constants
GPT_IMAGE_1 == "gpt-image-1"
GEMINI_FLASH == "gemini-2.5-flash-image-preview"
AUTO == "auto"
NoneValue == "None"

ModelType == {GPT_IMAGE_1, GEMINI_FLASH, AUTO}
Qualities == {"draft", "review", "production"}

\* BatchProcessor.__init__ default
max_concurrent_per_model == 2

COSTS ==
  [gpt_image_1_low |-> 20, gpt_image_1_medium |-> 70,
   gpt_image_1_high |-> 190, gemini_flash |-> 5]

\* What the outside world does to one generate_card call.
EngineEnvs ==
  {"ok", "transport_error", "no_image_data", "invalid_image", "save_failed",
   "print_raises"}

\* The values of BatchRequest.model a caller passes: nothing, a member of
\* ModelType by value, or a string that names no ModelType.
RequestModels == {NoneValue, GPT_IMAGE_1, GEMINI_FLASH, "dall-e-3"}

VARIABLES
  openai_available, gemini_available,   \* ModernHybridWorkflow flags
  max_workers,                          \* BatchProcessor.max_workers
  active_requests,                      \* BatchProcessor.active_requests
  requests,                             \* the batch, in submission order
  pc,                                   \* per request: position of its task
  tmp,                                  \* per request: value read from the counter
  outcome,                              \* per request: what generate_card did
  future,                               \* per request: the future's result
  results, completed, progress_log,     \* locals of _process_requests
  total_cost,
  main_pc,                              \* position of _process_requests
  batches,                              \* batches started on this processor
  wf_state, env_keys, last_call,        \* EngineSpec: construction and last call
  card_pc,                              \* position of the generate_card call
  card,                                 \* its arguments
  card_selected,                       \* its local selected_model
  card_env,                             \* what the call has met so far
  steps,                                \* the steps the call has taken
  provider_calls,                       \* the providers the call has invoked
  card_result,                          \* what the call returned (or raised)
  writes,                               \* the file paths written, in order
  clock,                                \* datetime.now(), in seconds
  calls,                                \* generate_card invocations so far
  set_pc, set_args, set_results,        \* generate_full_concept_set
  rule_call,                            \* RulesSpec: the last function applied
  active_jobs,                          \* BatchJobManager.active_jobs (status)
  job_queue,                            \* BatchJobManager.job_queue
  active_job_count,                     \* BatchJobManager.active_job_count
  worker,                               \* per _process_job_queue task: position
  worker_job,                           \* per task: its local job
  cancelled,                            \* jobs for which cancel_job returned True
  processed                             \* jobs handed to process_custom_batch

vars ==
  <<openai_available, gemini_available, max_workers, active_requests, requests,
    pc, tmp, outcome, future, results, completed, progress_log, total_cost,
    main_pc, batches, wf_state, env_keys, last_call, card_pc, card,
    card_selected, card_env, steps, provider_calls, card_result, writes,
    clock, calls, set_pc, set_args, set_results, rule_call, active_jobs,
    job_queue, active_job_count, worker, worker_job, cancelled, processed>>

batchVars ==
  <<max_workers, active_requests, requests, pc, tmp, outcome, future, results,
    completed, progress_log, total_cost, main_pc, batches>>

engineVars == <<wf_state, env_keys, last_call>>

cardVars ==
  <<card_pc, card, card_selected, card_env, steps, provider_calls,
    card_result, writes, clock, calls, set_pc, set_args, set_results>>

jobVars ==
  <<active_jobs, job_queue, active_job_count, worker, worker_job, cancelled,
    processed>>

\* What the batch, engine and generate_card actions leave alone.
restVars == <<rule_call, jobVars>>

\* ------------------------------------------------------------------ engine

\* _select_model sending review to GPT Image 1 (only draft prefers Gemini).
SelectModel_ReviewToGpt(requested, quality, oa, ga) ==
  IF requested /= AUTO /\ requested = GPT_IMAGE_1 /\ oa THEN GPT_IMAGE_1
  ELSE IF requested /= AUTO /\ requested = GEMINI_FLASH /\ ga THEN GEMINI_FLASH
  ELSE IF quality = "production" /\ oa THEN GPT_IMAGE_1
  ELSE IF quality \in {"draft"} /\ ga THEN GEMINI_FLASH
  ELSE IF oa THEN GPT_IMAGE_1
  ELSE IF ga THEN GEMINI_FLASH
  ELSE NoneValue

\* _select_model honouring a requested model without looking at its flag.
SelectModel_NoAvailabilityCheck(requested, quality, oa, ga) ==
  IF requested /= AUTO /\ requested = GPT_IMAGE_1 THEN GPT_IMAGE_1
  ELSE IF requested /= AUTO /\ requested = GEMINI_FLASH THEN GEMINI_FLASH
  ELSE IF quality = "production" /\ oa THEN GPT_IMAGE_1
  ELSE IF quality \in {"draft", "review"} /\ ga THEN GEMINI_FLASH
  ELSE IF oa THEN GPT_IMAGE_1
  ELSE IF ga THEN GEMINI_FLASH
  ELSE NoneValue

\* _select_model giving up when the requested model is not available.
SelectModel_NoFallback(requested, quality, oa, ga) ==
  IF requested /= AUTO /\ requested = GPT_IMAGE_1
  THEN (IF oa THEN GPT_IMAGE_1 ELSE NoneValue)
  ELSE IF requested /= AUTO /\ requested = GEMINI_FLASH
  THEN (IF ga THEN GEMINI_FLASH ELSE NoneValue)
  ELSE IF quality = "production" /\ oa THEN GPT_IMAGE_1
  ELSE IF quality \in {"draft", "review"} /\ ga THEN GEMINI_FLASH
  ELSE IF oa THEN GPT_IMAGE_1
  ELSE IF ga THEN GEMINI_FLASH
  ELSE NoneValue

\* ModernHybridWorkflow._select_model; NoneValue when no model is available.
SelectModel(requested, quality, oa, ga) ==
  IF requested /= AUTO /\ requested = GPT_IMAGE_1 /\ oa THEN GPT_IMAGE_1
  ELSE IF requested /= AUTO /\ requested = GEMINI_FLASH /\ ga THEN GEMINI_FLASH
  ELSE IF quality = "production" /\ oa THEN GPT_IMAGE_1
  ELSE IF quality \in {"draft", "review"} /\ ga THEN GEMINI_FLASH
  ELSE IF oa THEN GPT_IMAGE_1
  ELSE IF ga THEN GEMINI_FLASH
  ELSE NoneValue

GenerationResult(success, image, filepath, model_used, cost, err) ==
  [raised |-> FALSE, success |-> success, image_data |-> image,
   filepath |-> filepath, model_used |-> model_used, cost_estimate |-> cost,
   error_message |-> err]

\* An exception leaving generate_card (no result).
Raised(err) ==
  [raised |-> TRUE, success |-> FALSE, image_data |-> FALSE,
   filepath |-> NoneValue, model_used |-> NoneValue, cost_estimate |-> 0,
   error_message |-> err]

\* ModernHybridWorkflow._generate_with_gpt_image
GenerateWithGptImage(quality, env) ==
  LET cost == CASE quality = "draft" -> COSTS.gpt_image_1_low
                [] quality = "review" -> COSTS.gpt_image_1_medium
                [] OTHER -> COSTS.gpt_image_1_high
  IN IF env \in {"transport_error", "no_image_data", "invalid_image"}
     THEN GenerationResult(FALSE, FALSE, NoneValue, GPT_IMAGE_1, 0,
                           "OpenAI generation failed")
     ELSE GenerationResult(TRUE, TRUE, NoneValue, GPT_IMAGE_1, cost, NoneValue)

\* _generate_with_gemini building its failures without model_used.
GenerateWithGemini_NoModelOnFailure(env) ==
  IF env = "no_image_data"
  THEN GenerationResult(FALSE, FALSE, NoneValue, NoneValue, 0,
                        "No image data in Gemini response")
  ELSE IF env \in {"transport_error", "invalid_image"}
  THEN GenerationResult(FALSE, FALSE, NoneValue, NoneValue, 0,
                        "Gemini generation failed")
  ELSE GenerationResult(TRUE, TRUE, NoneValue, GEMINI_FLASH,
                        COSTS.gemini_flash, NoneValue)

\* ModernHybridWorkflow._generate_with_gemini
GenerateWithGemini(env) ==
  IF env = "no_image_data"
  THEN GenerationResult(FALSE, FALSE, NoneValue, GEMINI_FLASH, 0,
                        "No image data in Gemini response")
  ELSE IF env \in {"transport_error", "invalid_image"}
  THEN GenerationResult(FALSE, FALSE, NoneValue, GEMINI_FLASH, 0,
                        "Gemini generation failed")
  ELSE GenerationResult(TRUE, TRUE, NoneValue, GEMINI_FLASH,
                        COSTS.gemini_flash, NoneValue)

\* generate_card reporting a failed save on the provider's result (cost kept).
GenerateCard_KeepCost(model, quality, oa, ga, env) ==
  IF env = "print_raises" THEN Raised("UnicodeEncodeError")
  ELSE
    LET selected_model == SelectModel(model, quality, oa, ga) IN
    IF selected_model = NoneValue
    THEN GenerationResult(FALSE, FALSE, NoneValue, NoneValue, 0,
                          "No suitable model available for request")
    ELSE
      LET result == IF selected_model = GPT_IMAGE_1
                    THEN GenerateWithGptImage(quality, env)
                    ELSE GenerateWithGemini(env)
      IN IF ~result.success THEN result
         ELSE IF env = "save_failed"
         THEN [result EXCEPT !.success = FALSE,
                             !.error_message = "Generation failed"]
         ELSE [result EXCEPT !.filepath =
                 IF quality = "production" THEN "production" ELSE "drafts"]

\* ModernHybridWorkflow.generate_card
GenerateCard(model, quality, oa, ga, env) ==
  IF env = "print_raises" THEN Raised("UnicodeEncodeError")
  ELSE
    LET selected_model == SelectModel(model, quality, oa, ga) IN
    IF selected_model = NoneValue
    THEN GenerationResult(FALSE, FALSE, NoneValue, NoneValue, 0,
                          "No suitable model available for request")
    ELSE
      LET result == IF selected_model = GPT_IMAGE_1
                    THEN GenerateWithGptImage(quality, env)
                    ELSE GenerateWithGemini(env)
      IN IF ~result.success THEN result
         ELSE IF env = "save_failed"
         THEN GenerationResult(FALSE, FALSE, NoneValue, selected_model, 0,
                               "Generation failed")
         ELSE [result EXCEPT !.filepath =
                 IF quality = "production" THEN "production" ELSE "drafts"]

\* ------------------------------------------------------- batch: helpers

\* The keys of BatchProcessor.active_requests.
RateLimitKeys == {GPT_IMAGE_1, GEMINI_FLASH}

\* `sub in model_name.lower()` for the model names the processor builds.
ContainsLower(model_name, sub) ==
  \/ model_name = GPT_IMAGE_1 /\ sub = "gpt"
  \/ model_name = GEMINI_FLASH /\ sub = "gemini"

\* _process_single_request: "Determine model" (ModelType(request.model),
\* ValueError and a missing model both leave AUTO).
DetermineModel(request_model) ==
  IF request_model = NoneValue THEN AUTO
  ELSE IF request_model \in ModelType THEN request_model
  ELSE AUTO

\* _process_single_request: model_name
ModelName(model) == IF model /= AUTO THEN model ELSE "auto"

\* The key mapping shared by _check_rate_limit, _increment_active_requests
\* and _decrement_active_requests.
RateLimitKey(model_name) ==
  IF ContainsLower(model_name, "gpt") THEN GPT_IMAGE_1
  ELSE IF ContainsLower(model_name, "gemini") THEN GEMINI_FLASH
  ELSE model_name

\* BatchProcessor._check_rate_limit
CheckRateLimit(model_name, active) ==
  LET rate_limit_key == RateLimitKey(model_name)
      current_active == IF rate_limit_key \in DOMAIN active
                        THEN active[rate_limit_key] ELSE 0
  IN current_active < max_concurrent_per_model

\* The value _increment_active_requests stores after reading `read`.
IncrementedValue(read) == read + 1

\* The value _decrement_active_requests stores after reading `read`.
DecrementedValue(read) == IF read - 1 > 0 THEN read - 1 ELSE 0

\* BatchRequest: the defaults of the dataclass for what the batch does not use.
BatchRequest(quality, model, priority) ==
  [quality |-> quality, model |-> model, priority |-> priority]

\* The handler of lines 286-303 losing the exception text.
BatchResult_DropError(req, gen) ==
  IF gen.raised
  THEN [req |-> req, success |-> FALSE, filepath |-> NoneValue,
        model_used |-> NoneValue, cost_estimate |-> 0,
        error_message |-> NoneValue]
  ELSE [req |-> req, success |-> gen.success, filepath |-> gen.filepath,
        model_used |-> gen.model_used, cost_estimate |-> gen.cost_estimate,
        error_message |-> gen.error_message]

\* BatchResult built from what generate_card returned (lines 264-278) or,
\* when it raised, by the handler of lines 286-303.  `req` stands for the
\* request object the result belongs to (its concept and side).
BatchResult(req, gen) ==
  IF gen.raised
  THEN [req |-> req, success |-> FALSE, filepath |-> NoneValue,
        model_used |-> NoneValue, cost_estimate |-> 0,
        error_message |-> gen.error_message]
  ELSE [req |-> req, success |-> gen.success, filepath |-> gen.filepath,
        model_used |-> gen.model_used, cost_estimate |-> gen.cost_estimate,
        error_message |-> gen.error_message]

\* The error result _process_requests builds when future.result() raises
\* (lines 184-189).
ErrorResult(req, err) ==
  [req |-> req, success |-> FALSE, filepath |-> NoneValue,
   model_used |-> NoneValue, cost_estimate |-> 0, error_message |-> err]

\* A sort that puts a request before the earlier ones of equal priority.
RECURSIVE InsertByPriority_Unstable(_, _)
InsertByPriority_Unstable(sorted, r) ==
  IF sorted = <<>> THEN <<r>>
  ELSE IF Head(sorted).priority > r.priority
       THEN <<Head(sorted)>> \o InsertByPriority_Unstable(Tail(sorted), r)
       ELSE <<r>> \o sorted

\* list.sort(key=priority, reverse=True): stable, higher priority first.
RECURSIVE InsertByPriority(_, _)
InsertByPriority(sorted, r) ==
  IF sorted = <<>> THEN <<r>>
  ELSE IF Head(sorted).priority >= r.priority
       THEN <<Head(sorted)>> \o InsertByPriority(Tail(sorted), r)
       ELSE <<r>> \o sorted

RECURSIVE SortByPriority(_)
SortByPriority(reqs) ==
  IF reqs = <<>> THEN <<>>
  ELSE InsertByPriority(SortByPriority(SubSeq(reqs, 1, Len(reqs) - 1)),
                        reqs[Len(reqs)])

RECURSIVE SumCost(_)
SumCost(rs) == IF rs = <<>> THEN 0 ELSE Head(rs).cost_estimate + SumCost(Tail(rs))

\* The progress computed from the count before its increment.
Progress_BeforeIncrement(done, total) == ((done - 1) * 100000) \div total

\* completed / len(requests) * 100.0, in thousandths of a percent.
Progress(done, total) == (done * 100000) \div total

\* ------------------------------------------------- generate_card: helpers

\* The design concepts and sides callers pass.
Concepts == {"Clinical-Precision"}
Sides == {"front", "back"}

\* The clock advances in ticks; strftime("%Y%m%d_%H%M%S") keeps whole seconds.
TicksPerSecond == 2
Timestamp(now) == now \div TicksPerSecond

\* _save_image: model_short
ModelShort(model) == IF ContainsLower(model, "gpt") THEN "GPT1" ELSE "GEMINI"

\* generate_card saving review cards with the production ones.
Directory_ReviewIsProduction(quality) ==
  IF quality \in {"production", "review"} THEN "production" ELSE "drafts"

\* generate_card: directory
Directory(quality) == IF quality = "production" THEN "production" ELSE "drafts"

\* _save_image: the path of directory / filename
FilePath(directory, concept, side, model, now) ==
  [dir |-> directory, concept |-> concept, side |-> side,
   model_short |-> ModelShort(model), timestamp |-> Timestamp(now)]

\* No generate_card call has returned yet.
NoResult == GenerationResult(FALSE, FALSE, NoneValue, NoneValue, 0, NoneValue)

NoArgs == [concept |-> NoneValue, side |-> NoneValue, model |-> NoneValue,
           quality |-> NoneValue]

\* generate_full_concept_set: results = {}
EmptySet == [keys |-> {}, front |-> NoResult, back |-> NoResult]

\* No generate_card or generate_full_concept_set call has been made.
CardIdle ==
  /\ card_pc = "idle"
  /\ card = NoArgs
  /\ card_selected = NoneValue
  /\ card_env = "ok"
  /\ steps = <<>>
  /\ provider_calls = <<>>
  /\ card_result = NoResult
  /\ writes = <<>>
  /\ clock = 0
  /\ calls = 0
  /\ set_pc = "none"
  /\ set_args = NoArgs
  /\ set_results = EmptySet

\* ------------------------------------------------------ job manager: helpers

\* The job ids callers submit, and the _process_job_queue tasks created (at
\* most one per submission).
JobIds == 1..MaxJobs
Tasks == 1..MaxJobs

\* BatchJobManager.__init__
max_concurrent_jobs == 2

\* BatchJobManager.__init__: no job, no task.
JobIdle ==
  /\ active_jobs = [j \in JobIds |-> "none"]
  /\ job_queue = <<>>
  /\ active_job_count = 0
  /\ worker = [w \in Tasks |-> "none"]
  /\ worker_job = [w \in Tasks |-> 0]
  /\ cancelled = {}
  /\ processed = <<>>

\* No function has been applied and no job manager is in use.
RestIdle ==
  /\ rule_call = [op |-> NoneValue]
  /\ JobIdle

\* ------------------------------------------------------- batch: actions

Items == 1..Len(requests)

\* A task a pool thread has taken and not finished.
Running(i) ==
  pc[i] \in {"sleep", "increment", "inc_write", "call", "decrement", "dec_write"}

ModelOf(i) == DetermineModel(requests[i].model)
KeyOf(i) == RateLimitKey(ModelName(ModelOf(i)))

\* The batches a caller submits.  process_batch gives every request the
\* quality and the model of the batch; process_custom_batch takes requests
\* with a model each.  The priority is the dataclass default.
DefaultPriority == 1

UniformBatches ==
  {[i \in 1..n |-> BatchRequest(q, m, DefaultPriority)] :
     n \in 0..MaxRequests, q \in Qualities, m \in RequestModels}

MixedBatches ==
  UNION {{[i \in 1..n |-> BatchRequest(q, models[i], DefaultPriority)] :
            q \in Qualities, models \in [1..n -> RequestModels]} :
         n \in 0..MaxMixed}

BatchInputs == UniformBatches \cup MixedBatches

\* What generate_card meets during a batch.
BatchEnvs == {"ok", "transport_error", "save_failed", "print_raises"}

\* State after ModernHybridWorkflow() and BatchProcessor(workflow, max_workers).
Init ==
  /\ openai_available \in BOOLEAN
  /\ gemini_available \in BOOLEAN
  /\ openai_available \/ gemini_available
  /\ max_workers \in 1..MaxWorkers
  /\ active_requests = [k \in RateLimitKeys |-> 0]
  /\ requests = <<>>
  /\ pc = <<>>
  /\ tmp = <<>>
  /\ outcome = <<>>
  /\ future = <<>>
  /\ results = <<>>
  /\ completed = 0
  /\ progress_log = <<>>
  /\ total_cost = 0
  /\ main_pc = "idle"
  /\ batches = 0
  /\ wf_state = "ready"
  /\ env_keys = <<openai_available, gemini_available>>
  /\ last_call = [op |-> NoneValue]
  /\ CardIdle
  /\ RestIdle

\* process_custom_batch / _process_requests up to the end of the submit loop
\* (lines 145-158): sort, then one task per request in the pool's queue.
ProcessBatch(reqs) ==
  /\ main_pc \in {"idle", "returned", "raised"}
  /\ batches < MaxBatches
  /\ batches' = batches + 1
  /\ requests' = SortByPriority(reqs)
  /\ pc' = [i \in 1..Len(reqs) |-> "queued"]
  /\ tmp' = [i \in 1..Len(reqs) |-> 0]
  /\ outcome' = [i \in 1..Len(reqs) |-> NoneValue]
  /\ future' = [i \in 1..Len(reqs) |-> NoneValue]
  /\ results' = <<>>
  /\ completed' = 0
  /\ progress_log' = <<>>
  /\ total_cost' = 0
  /\ main_pc' = "running"
  /\ UNCHANGED <<openai_available, gemini_available, max_workers,
                 active_requests, engineVars, cardVars, restVars>>

\* A pool thread takes the next queued task (FIFO) and runs
\* _process_single_request up to the rate limit check (lines 224-240).
StartRequest(i) ==
  /\ main_pc = "running"
  /\ pc[i] = "queued"
  /\ \A j \in Items : j < i => pc[j] /= "queued"
  /\ Cardinality({j \in Items : Running(j)}) < max_workers
  /\ pc' = [pc EXCEPT ![i] =
              IF CheckRateLimit(ModelName(ModelOf(i)), active_requests)
              THEN "increment" ELSE "sleep"]
  /\ UNCHANGED <<openai_available, gemini_available, max_workers,
                 active_requests, requests, tmp, outcome, future, results,
                 completed, progress_log, total_cost, main_pc, batches,
                 engineVars, cardVars, restVars>>

\* time.sleep(1) after a failed rate limit check (lines 241-247); the check
\* is not repeated.
Sleep(i) ==
  /\ pc[i] = "sleep"
  /\ pc' = [pc EXCEPT ![i] = "increment"]
  /\ UNCHANGED <<openai_available, gemini_available, max_workers,
                 active_requests, requests, tmp, outcome, future, results,
                 completed, progress_log, total_cost, main_pc, batches,
                 engineVars, cardVars, restVars>>

\* _increment_active_requests, the read of `active_requests[key] += 1`; a key
\* that is not in the dict leaves the counters alone.
IncrementRead(i) ==
  /\ pc[i] = "increment"
  /\ IF KeyOf(i) \in DOMAIN active_requests
     THEN /\ tmp' = [tmp EXCEPT ![i] = active_requests[KeyOf(i)]]
          /\ pc' = [pc EXCEPT ![i] = "inc_write"]
     ELSE /\ tmp' = tmp
          /\ pc' = [pc EXCEPT ![i] = "call"]
  /\ UNCHANGED <<openai_available, gemini_available, max_workers,
                 active_requests, requests, outcome, future, results,
                 completed, progress_log, total_cost, main_pc, batches,
                 engineVars, cardVars, restVars>>

\* _increment_active_requests, the store; generate_card is called next.
IncrementWrite(i) ==
  /\ pc[i] = "inc_write"
  /\ active_requests' =
       [active_requests EXCEPT ![KeyOf(i)] = IncrementedValue(tmp[i])]
  /\ tmp' = [tmp EXCEPT ![i] = 0]
  /\ pc' = [pc EXCEPT ![i] = "call"]
  /\ UNCHANGED <<openai_available, gemini_available, max_workers, requests,
                 outcome, future, results, completed, progress_log,
                 total_cost, main_pc, batches, engineVars, cardVars, restVars>>

\* Calls of generate_card in this batch that did not end in success.
Called(j) == pc[j] \in {"decrement", "dec_write", "done", "collected"}
Faults == {j \in Items : Called(j) /\ ~outcome[j].success}

\* generate_card marking a provider unavailable once a call on it failed.
GenerateCardReturns_MarksUnavailable(i, env) ==
  /\ pc[i] = "call"
  /\ env /= "ok" => Cardinality(Faults) < MaxFaults
  /\ LET result == GenerateCard(ModelOf(i), requests[i].quality,
                                openai_available, gemini_available, env)
     IN /\ outcome' = [outcome EXCEPT ![i] = result]
        /\ openai_available' =
             (openai_available
              /\ ~(~result.success /\ result.model_used = GPT_IMAGE_1))
        /\ gemini_available' =
             (gemini_available
              /\ ~(~result.success /\ result.model_used = GEMINI_FLASH))
  /\ pc' = [pc EXCEPT ![i] = "decrement"]
  /\ UNCHANGED <<max_workers, active_requests, requests, tmp, future, results,
                 completed, progress_log, total_cost, main_pc, batches,
                 engineVars, cardVars, restVars>>

\* workflow.generate_card returns or raises (lines 254-259).
GenerateCardReturns(i, env) ==
  /\ pc[i] = "call"
  /\ env /= "ok" => Cardinality(Faults) < MaxFaults
  /\ outcome' = [outcome EXCEPT ![i] =
                   GenerateCard(ModelOf(i), requests[i].quality,
                                openai_available, gemini_available, env)]
  /\ pc' = [pc EXCEPT ![i] = "decrement"]
  /\ UNCHANGED <<openai_available, gemini_available, max_workers,
                 active_requests, requests, tmp, future, results, completed,
                 progress_log, total_cost, main_pc, batches, engineVars, cardVars, restVars>>

\* What _process_single_request hands to its future.
TaskDone(i) ==
  /\ future' = [future EXCEPT ![i] =
                  [raised |-> FALSE, result |-> BatchResult(i, outcome[i])]]
  /\ pc' = [pc EXCEPT ![i] = "done"]

\* The finally clause: _decrement_active_requests, the read.
DecrementRead(i) ==
  /\ pc[i] = "decrement"
  /\ IF KeyOf(i) \in DOMAIN active_requests
     THEN /\ tmp' = [tmp EXCEPT ![i] = active_requests[KeyOf(i)]]
          /\ pc' = [pc EXCEPT ![i] = "dec_write"]
          /\ future' = future
     ELSE /\ tmp' = tmp
          /\ TaskDone(i)
  /\ UNCHANGED <<openai_available, gemini_available, max_workers,
                 active_requests, requests, outcome, results, completed,
                 progress_log, total_cost, main_pc, batches, engineVars, cardVars, restVars>>

\* _decrement_active_requests, the store; then the task returns its result.
DecrementWrite(i) ==
  /\ pc[i] = "dec_write"
  /\ active_requests' =
       [active_requests EXCEPT ![KeyOf(i)] = DecrementedValue(tmp[i])]
  /\ tmp' = [tmp EXCEPT ![i] = 0]
  /\ TaskDone(i)
  /\ UNCHANGED <<openai_available, gemini_available, max_workers, requests,
                 outcome, results, completed, progress_log, total_cost,
                 main_pc, batches, engineVars, cardVars, restVars>>

\* One iteration of the as_completed loop (lines 161-203).
Collect(i) ==
  /\ main_pc = "running"
  /\ pc[i] = "done"
  /\ results' = Append(results,
                  IF future[i].raised
                  THEN ErrorResult(i, future[i].result)
                  ELSE future[i].result)
  /\ completed' = completed + 1
  /\ progress_log' = Append(progress_log, Progress(completed', Len(requests)))
  /\ pc' = [pc EXCEPT ![i] = "collected"]
  /\ UNCHANGED <<openai_available, gemini_available, max_workers,
                 active_requests, requests, tmp, outcome, future, total_cost,
                 main_pc, batches, engineVars, cardVars, restVars>>

\* The statistics after the loop (lines 205-220): the average time per card
\* divides by len(requests).
Finish ==
  /\ main_pc = "running"
  /\ \A i \in Items : pc[i] = "collected"
  /\ total_cost' = SumCost(results)
  /\ main_pc' = IF Len(requests) = 0 THEN "raised" ELSE "returned"
  /\ UNCHANGED <<openai_available, gemini_available, max_workers,
                 active_requests, requests, pc, tmp, outcome, future, results,
                 completed, progress_log, batches, engineVars, cardVars, restVars>>

Next ==
  \/ \E reqs \in BatchInputs : ProcessBatch(reqs)
  \/ \E i \in Items : StartRequest(i)
  \/ \E i \in Items : Sleep(i)
  \/ \E i \in Items : IncrementRead(i)
  \/ \E i \in Items : IncrementWrite(i)
  \/ \E i \in Items, env \in BatchEnvs : GenerateCardReturns(i, env)
  \/ \E i \in Items : DecrementRead(i)
  \/ \E i \in Items : DecrementWrite(i)
  \/ \E i \in Items : Collect(i)
  \/ Finish

Spec == Init /\ [][Next]_vars

\* ----------------------------------------------------- engine: actions

\* Before ModernHybridWorkflow() runs: the environment holds a key or not for
\* each provider; no batch processor exists.
EngineInit ==
  /\ env_keys \in BOOLEAN \X BOOLEAN
  /\ wf_state = "unconstructed"
  /\ openai_available = FALSE
  /\ gemini_available = FALSE
  /\ last_call = [op |-> NoneValue]
  /\ max_workers = 1
  /\ active_requests = [k \in RateLimitKeys |-> 0]
  /\ requests = <<>>
  /\ pc = <<>>
  /\ tmp = <<>>
  /\ outcome = <<>>
  /\ future = <<>>
  /\ results = <<>>
  /\ completed = 0
  /\ progress_log = <<>>
  /\ total_cost = 0
  /\ main_pc = "idle"
  /\ batches = 0
  /\ CardIdle
  /\ RestIdle

\* A constructor that accepts an environment without any key.
Construct_NeverRaises ==
  /\ wf_state = "unconstructed"
  /\ openai_available' = env_keys[1]
  /\ gemini_available' = env_keys[2]
  /\ wf_state' = "ready"
  /\ UNCHANGED <<env_keys, last_call, batchVars, cardVars, restVars>>

\* ModernHybridWorkflow.__init__ / setup_clients: a flag per key found,
\* ValueError when there is none.
Construct ==
  /\ wf_state = "unconstructed"
  /\ openai_available' = env_keys[1]
  /\ gemini_available' = env_keys[2]
  /\ wf_state' = IF env_keys[1] \/ env_keys[2] THEN "ready" ELSE "ctor_raised"
  /\ UNCHANGED <<env_keys, last_call, batchVars, cardVars, restVars>>

\* A call of _select_model on the constructed workflow.
SelectModelCall(requested, quality) ==
  /\ wf_state = "ready"
  /\ last_call' = [op |-> "_select_model", requested |-> requested,
                   quality |-> quality,
                   chosen |-> SelectModel(requested, quality,
                                          openai_available, gemini_available)]
  /\ UNCHANGED <<openai_available, gemini_available, wf_state, env_keys,
                 batchVars, cardVars, restVars>>

\* A call of generate_card on the constructed workflow.
GenerateCardCall(model, quality, env) ==
  /\ wf_state = "ready"
  /\ last_call' = [op |-> "generate_card", requested |-> model,
                   quality |-> quality, env |-> env,
                   result |-> GenerateCard(model, quality, openai_available,
                                           gemini_available, env)]
  /\ UNCHANGED <<openai_available, gemini_available, wf_state, env_keys,
                 batchVars, cardVars, restVars>>

EngineNext ==
  \/ Construct
  \/ \E m \in ModelType, q \in Qualities : SelectModelCall(m, q)
  \/ \E m \in ModelType, q \in Qualities, env \in EngineEnvs :
       GenerateCardCall(m, q, env)

EngineSpec == EngineInit /\ [][EngineNext]_vars

\* ----------------------------------------------- generate_card: actions

\* What a provider does with one request: an image, an exception from the
\* client, a response without image data, or no answer at all.
ProviderAnswers == {"image", "transport_error", "no_image_data", "silent"}

\* The result generate_card returns for the call in progress once it has
\* met env.
Outcome(env) ==
  GenerateCard(card.model, card.quality, openai_available, gemini_available,
               env)

\* A constructed workflow.  Construction needs a key; the flags are public
\* attributes, which a caller may clear afterwards.
CardInit ==
  /\ env_keys \in {k \in BOOLEAN \X BOOLEAN : k[1] \/ k[2]}
  /\ \E cleared \in BOOLEAN :
       /\ openai_available = (env_keys[1] /\ ~cleared)
       /\ gemini_available = (env_keys[2] /\ ~cleared)
  /\ wf_state = "ready"
  /\ last_call = [op |-> NoneValue]
  /\ max_workers = 1
  /\ active_requests = [k \in RateLimitKeys |-> 0]
  /\ requests = <<>>
  /\ pc = <<>>
  /\ tmp = <<>>
  /\ outcome = <<>>
  /\ future = <<>>
  /\ results = <<>>
  /\ completed = 0
  /\ progress_log = <<>>
  /\ total_cost = 0
  /\ main_pc = "idle"
  /\ batches = 0
  /\ CardIdle
  /\ RestIdle

\* generate_card, lines 155-156: the call starts and prints its banner; an
\* exception of print leaves the method.  Inside generate_full_concept_set
\* the arguments are those of lines 416 and 421.
GenerateCardBegin(concept, side, model, quality, prints_ok) ==
  /\ wf_state = "ready"
  /\ card_pc = "idle"
  /\ calls < MaxCalls
  /\ IF set_pc \in Sides
     THEN /\ concept = set_args.concept
          /\ side = set_pc
          /\ model = AUTO
          /\ quality = set_args.quality
     ELSE set_pc = "none"
  /\ calls' = calls + 1
  /\ card' = [concept |-> concept, side |-> side, model |-> model,
              quality |-> quality]
  /\ steps' = <<>>
  /\ provider_calls' = <<>>
  /\ card_selected' = NoneValue
  /\ IF prints_ok
     THEN /\ card_pc' = "select"
          /\ card_env' = "ok"
          /\ card_result' = NoResult
     ELSE /\ card_pc' = "done"
          /\ card_env' = "print_raises"
          /\ card_result' = GenerateCard(model, quality, openai_available,
                                         gemini_available, "print_raises")
  /\ UNCHANGED <<openai_available, gemini_available, writes, clock, set_pc,
                 set_args, set_results, engineVars, batchVars, restVars>>

\* generate_card, lines 159-164: select the model, return at once when there
\* is none.
CardSelect ==
  /\ card_pc = "select"
  /\ LET sel == SelectModel(card.model, card.quality, openai_available,
                            gemini_available)
     IN /\ card_selected' = sel
        /\ steps' = Append(steps, "select")
        /\ IF sel = NoneValue
           THEN /\ card_pc' = "done"
                /\ card_result' = Outcome(card_env)
           ELSE /\ card_pc' = "prompt"
                /\ UNCHANGED card_result
  /\ UNCHANGED <<openai_available, gemini_available, card, card_env,
                 provider_calls, writes, clock, calls, set_pc, set_args,
                 set_results, engineVars, batchVars, restVars>>

\* generate_card, line 167: _build_universal_prompt
CardPrompt ==
  /\ card_pc = "prompt"
  /\ card_pc' = "call"
  /\ steps' = Append(steps, "prompt")
  /\ UNCHANGED <<openai_available, gemini_available, card, card_selected,
                 card_env, provider_calls, card_result, writes, clock, calls,
                 set_pc, set_args, set_results, engineVars, batchVars, restVars>>

\* generate_card retrying on the other provider when the call failed.
CardProviderCall_Fallback(answer) ==
  /\ card_pc = "call"
  /\ provider_calls' = Append(provider_calls, card_selected)
  /\ steps' = Append(steps, "call")
  /\ LET other == IF card_selected = GPT_IMAGE_1 THEN GEMINI_FLASH
                  ELSE GPT_IMAGE_1
         other_available == IF other = GPT_IMAGE_1 THEN openai_available
                            ELSE gemini_available
     IN CASE answer = "image" ->
               /\ card_pc' = "validate"
               /\ UNCHANGED <<card_env, card_result, card_selected>>
          [] answer = "silent" ->
               /\ card_pc' = "waiting"
               /\ UNCHANGED <<card_env, card_result, card_selected>>
          [] OTHER ->
               IF other_available /\ Len(provider_calls) = 0
               THEN /\ card_pc' = "call"
                    /\ card_selected' = other
                    /\ UNCHANGED <<card_env, card_result>>
               ELSE /\ card_pc' = "done"
                    /\ card_env' = answer
                    /\ card_result' = Outcome(answer)
                    /\ UNCHANGED card_selected
  /\ UNCHANGED <<openai_available, gemini_available, card, writes, clock,
                 calls, set_pc, set_args, set_results, engineVars, batchVars, restVars>>

\* _generate_with_gpt_image lines 244-254 / _generate_with_gemini lines
\* 276-294: the one request to the selected provider.  No timeout is passed,
\* so a provider that stays silent leaves the call waiting.
CardProviderCall(answer) ==
  /\ card_pc = "call"
  /\ provider_calls' = Append(provider_calls, card_selected)
  /\ steps' = Append(steps, "call")
  /\ CASE answer = "image" ->
            /\ card_pc' = "validate"
            /\ UNCHANGED <<card_env, card_result>>
       [] answer = "silent" ->
            /\ card_pc' = "waiting"
            /\ UNCHANGED <<card_env, card_result>>
       [] OTHER ->
            /\ card_pc' = "done"
            /\ card_env' = answer
            /\ card_result' = Outcome(answer)
  /\ UNCHANGED <<openai_available, gemini_available, card, card_selected,
                 writes, clock, calls, set_pc, set_args, set_results,
                 engineVars, batchVars, restVars>>

\* The provider method saving the bytes before it validates them.
CardValidate_SaveFirst(valid) ==
  /\ card_pc = "validate"
  /\ steps' = Append(steps, "validate")
  /\ writes' = Append(writes,
                      FilePath(Directory(card.quality), card.concept,
                               card.side, card_selected, clock))
  /\ card_pc' = "done"
  /\ card_env' = IF valid THEN card_env ELSE "invalid_image"
  /\ card_result' = Outcome(IF valid THEN card_env ELSE "invalid_image")
  /\ UNCHANGED <<openai_available, gemini_available, card, card_selected,
                 provider_calls, clock, calls, set_pc, set_args, set_results,
                 engineVars, batchVars, restVars>>

\* _validate_image on the returned bytes (lines 257, 297): an invalid image
\* raises inside the provider method, which returns a failure.
CardValidate(valid) ==
  /\ card_pc = "validate"
  /\ steps' = Append(steps, "validate")
  /\ IF valid
     THEN /\ card_pc' = "persist"
          /\ UNCHANGED <<card_env, card_result>>
     ELSE /\ card_pc' = "done"
          /\ card_env' = "invalid_image"
          /\ card_result' = Outcome("invalid_image")
  /\ UNCHANGED <<openai_available, gemini_available, card, card_selected,
                 provider_calls, writes, clock, calls, set_pc, set_args,
                 set_results, engineVars, batchVars, restVars>>

\* generate_card lines 180-206 with _save_image: the file is written under
\* the name built from the clock, or the write raises and the except clause
\* builds the failure.
CardPersist(saved) ==
  /\ card_pc = "persist"
  /\ steps' = Append(steps, "persist")
  /\ card_pc' = "done"
  /\ IF saved
     THEN /\ writes' = Append(writes,
                         FilePath(Directory(card.quality), card.concept,
                                  card.side, card_selected, clock))
          /\ card_result' = Outcome(card_env)
          /\ UNCHANGED card_env
     ELSE /\ card_env' = "save_failed"
          /\ card_result' = Outcome("save_failed")
          /\ UNCHANGED writes
  /\ UNCHANGED <<openai_available, gemini_available, card, card_selected,
                 provider_calls, clock, calls, set_pc, set_args, set_results,
                 engineVars, batchVars, restVars>>

\* The call returns (or its exception reaches the caller).  Inside
\* generate_full_concept_set, lines 416-423: the side is stored when it
\* succeeded, and an exception ends the set.
CardReturn ==
  /\ card_pc = "done"
  /\ card_pc' = "idle"
  /\ card' = NoArgs
  /\ card_selected' = NoneValue
  /\ card_env' = "ok"
  /\ steps' = <<>>
  /\ provider_calls' = <<>>
  /\ card_result' = NoResult
  /\ IF set_pc \in Sides
     THEN /\ set_pc' = IF card_result.raised THEN "raised"
                       ELSE IF set_pc = "front" THEN "back" ELSE "returned"
          /\ set_results' =
               IF ~card_result.success THEN set_results
               ELSE IF set_pc = "front"
               THEN [set_results EXCEPT !.keys = @ \cup {"front"},
                                        !.front = card_result]
               ELSE [set_results EXCEPT !.keys = @ \cup {"back"},
                                        !.back = card_result]
     ELSE UNCHANGED <<set_pc, set_results>>
  /\ UNCHANGED <<openai_available, gemini_available, writes, clock, calls,
                 set_args, engineVars, batchVars, restVars>>

\* generate_full_concept_set, lines 411-413.
FullSetBegin(concept, quality, prints_ok) ==
  /\ wf_state = "ready"
  /\ card_pc = "idle"
  /\ set_pc = "none"
  /\ calls + 2 <= MaxCalls
  /\ set_args' = [NoArgs EXCEPT !.concept = concept, !.quality = quality]
  /\ set_results' = EmptySet
  /\ set_pc' = IF prints_ok THEN "front" ELSE "raised"
  /\ UNCHANGED <<openai_available, gemini_available, card_pc, card,
                 card_selected, card_env, steps, provider_calls, card_result,
                 writes, clock, calls, engineVars, batchVars, restVars>>

\* generate_full_concept_set, line 425 (or its exception reaches the caller).
FullSetReturn ==
  /\ set_pc \in {"returned", "raised"}
  /\ set_pc' = "none"
  /\ set_args' = NoArgs
  /\ set_results' = EmptySet
  /\ UNCHANGED <<openai_available, gemini_available, card_pc, card,
                 card_selected, card_env, steps, provider_calls, card_result,
                 writes, clock, calls, engineVars, batchVars, restVars>>

\* Time passes.
Tick ==
  /\ clock < MaxClock
  /\ clock' = clock + 1
  /\ UNCHANGED <<openai_available, gemini_available, card_pc, card,
                 card_selected, card_env, steps, provider_calls, card_result,
                 writes, calls, set_pc, set_args, set_results, engineVars,
                 batchVars, restVars>>

\* The steps of a generate_card call in progress.
CardStep ==
  \/ CardSelect
  \/ CardPrompt
  \/ \E answer \in ProviderAnswers : CardProviderCall(answer)
  \/ \E valid \in BOOLEAN : CardValidate(valid)
  \/ \E saved \in BOOLEAN : CardPersist(saved)
  \/ CardReturn

CardNext ==
  \/ \E concept \in Concepts, side \in Sides, model \in ModelType,
        quality \in Qualities, prints_ok \in BOOLEAN :
       GenerateCardBegin(concept, side, model, quality, prints_ok)
  \/ CardStep
  \/ \E concept \in Concepts, quality \in Qualities, prints_ok \in BOOLEAN :
       FullSetBegin(concept, quality, prints_ok)
  \/ FullSetReturn
  \/ Tick

CardSpec == CardInit /\ [][CardNext]_vars

\* ------------------------------------------------------------- rules

\* Image bytes, by what PIL reports of them: whether Image.open identifies
\* an image, its size and mode, and the length of the bytes.
Dims == {300, 511, 512, 600, 1050}
Modes == {"RGB", "RGBA", "L"}
Sizes == {1023, 1024, 10485760, 10485761}
GarbageSizes == {0, 12, 1023, 1024, 2048}

Images ==
  [opens : {TRUE}, width : Dims, height : Dims, mode : Modes, size : Sizes]
    \cup [opens : {FALSE}, width : {0}, height : {0}, mode : {NoneValue},
          size : GarbageSizes]

\* _validate_image with the bounds exclusive.
ValidateImage_Exclusive(image_data) ==
  IF ~image_data.opens
  THEN [raised |-> TRUE, image_data |-> image_data]
  ELSE IF image_data.width <= 512 \/ image_data.height <= 512
  THEN [raised |-> TRUE, image_data |-> image_data]
  ELSE IF image_data.mode \notin {"RGB", "RGBA"}
  THEN [raised |-> TRUE, image_data |-> image_data]
  ELSE [raised |-> FALSE, image_data |-> image_data]

\* ModernHybridWorkflow._validate_image: raises ValueError or returns; the
\* bytes it was given afterwards.
ValidateImage(image_data) ==
  IF ~image_data.opens
  THEN [raised |-> TRUE, image_data |-> image_data]
  ELSE IF image_data.width < 512 \/ image_data.height < 512
  THEN [raised |-> TRUE, image_data |-> image_data]
  ELSE IF image_data.mode \notin {"RGB", "RGBA"}
  THEN [raised |-> TRUE, image_data |-> image_data]
  ELSE [raised |-> FALSE, image_data |-> image_data]

\* What a single check does: it raises ValueError or returns a bool.
Returned(value) == [raised |-> FALSE, value |-> value]
ValueError == [raised |-> TRUE, value |-> FALSE]

\* image_rules.validate_min_resolution
validate_min_resolution(image_data) ==
  IF ~image_data.opens THEN ValueError
  ELSE Returned(image_data.width >= 512 /\ image_data.height >= 512)

\* image_rules.validate_color_mode
validate_color_mode(image_data) ==
  IF ~image_data.opens THEN ValueError
  ELSE Returned(image_data.mode \in {"RGB", "RGBA"})

\* image_rules.validate_aspect_ratio: abs(width / height - 1.75) <= 0.1,
\* in twentieths of the height.
validate_aspect_ratio(image_data) ==
  IF ~image_data.opens THEN ValueError
  ELSE LET d == 20 * image_data.width - 35 * image_data.height
       IN Returned((IF d >= 0 THEN d ELSE -d) <= 2 * image_data.height)

\* image_rules.validate_file_size: the length of the bytes only.
validate_file_size(image_data) ==
  Returned(1024 <= image_data.size /\ image_data.size <= 10 * 1024 * 1024)

\* image_rules.validate_print_dpi: min(width / 3.5, height / 2.0) >= 150.
validate_print_dpi(image_data) ==
  IF ~image_data.opens THEN ValueError
  ELSE Returned(2 * image_data.width >= 7 * 150
                /\ image_data.height >= 2 * 150)

\* try: results[k] = check(image_data) / except Exception: False
OrFalse(check) == IF check.raised THEN FALSE ELSE check.value

\* image_rules.validate_business_card_image
validate_business_card_image(image_data) ==
  LET min_resolution == OrFalse(validate_min_resolution(image_data))
      color_mode == OrFalse(validate_color_mode(image_data))
      aspect_ratio == OrFalse(validate_aspect_ratio(image_data))
      file_size == OrFalse(validate_file_size(image_data))
      print_dpi == OrFalse(validate_print_dpi(image_data))
  IN [raised |-> FALSE, min_resolution |-> min_resolution,
      color_mode |-> color_mode, aspect_ratio |-> aspect_ratio,
      file_size |-> file_size, print_dpi |-> print_dpi,
      overall_valid |-> (min_resolution /\ color_mode /\ aspect_ratio
                         /\ file_size /\ print_dpi)]

\* An API key variable of the environment: unset, set to the empty string,
\* set to a string that fails the format check of api_status, or set to one
\* that passes it.
KeyStates == {"missing", "empty", "malformed", "well_formed"}

\* `if key:` on what os.getenv returns.
Truthy(key) == key \notin {"missing", "empty"}

\* os.getenv('GOOGLE_API_KEY') or os.getenv('GEMINI_API_KEY')
OrKey(google_key, gemini_key) ==
  IF Truthy(google_key) THEN google_key ELSE gemini_key

\* ModernHybridWorkflow.setup_clients: the flags, or ValueError.
SetupClients(openai_key, google_key, gemini_key) ==
  LET oa == Truthy(openai_key)
      ga == Truthy(OrKey(google_key, gemini_key))
  IN [raised |-> ~(oa \/ ga), openai_available |-> oa,
      gemini_available |-> ga]

\* api_status.check_openai_status / check_gemini_status: the status for the
\* key found (prefix and length are the format check).
CheckStatus(api_key) ==
  IF ~Truthy(api_key) THEN "missing_key"
  ELSE IF api_key = "malformed" THEN "invalid_key"
  ELSE "available"

\* api_status.get_available_models
GetAvailableModels(openai_key, google_key, gemini_key) ==
  <<CheckStatus(openai_key) = "available",
    CheckStatus(OrKey(google_key, gemini_key)) = "available">>

\* The concepts of the priority table, and one that is not in it.
PriorityConcepts ==
  {"Clinical-Precision", "Athletic-Edge", "Luxury-Wellness", "Custom"}

\* BatchProcessor._calculate_priority
CalculatePriority(concept, side, quality) ==
  1
  + (IF quality = "production" THEN 2 ELSE IF quality = "review" THEN 1 ELSE 0)
  + (IF side = "front" THEN 1 ELSE 0)
  + (CASE concept = "Clinical-Precision" -> 3
       [] concept = "Athletic-Edge" -> 2
       [] concept = "Luxury-Wellness" -> 1
       [] OTHER -> 0)

\* The lists of concepts and of sides a caller passes to process_batch.
ConceptLists ==
  {<<c>> : c \in PriorityConcepts}
    \cup {<<c1, c2>> : c1 \in PriorityConcepts, c2 \in PriorityConcepts}
SideLists == {<<"front">>, <<"back">>, <<"front", "back">>, <<"back", "front">>}

\* process_batch, lines 97-106: one request per concept and side, in loop
\* order, with its calculated priority; id is its position in the list.
BuildRequests(concepts, sides, quality) ==
  [k \in 1..(Len(concepts) * Len(sides)) |->
     LET concept == concepts[((k - 1) \div Len(sides)) + 1]
         side == sides[((k - 1) % Len(sides)) + 1]
     IN [id |-> k, concept |-> concept, side |-> side, quality |-> quality,
         priority |-> CalculatePriority(concept, side, quality)]]

\* The custom batches: up to MaxSort requests with any priorities.
CustomLists ==
  UNION {[1..n -> 1..MaxPriority] : n \in 0..MaxSort}

CustomRequests(priorities) ==
  [k \in 1..Len(priorities) |-> [id |-> k, priority |-> priorities[k]]]

\* ------------------------------------------------------ rules: actions

\* No workflow object is needed to apply the rules.
RulesInit ==
  /\ env_keys = <<FALSE, FALSE>>
  /\ wf_state = "unconstructed"
  /\ openai_available = FALSE
  /\ gemini_available = FALSE
  /\ last_call = [op |-> NoneValue]
  /\ max_workers = 1
  /\ active_requests = [k \in RateLimitKeys |-> 0]
  /\ requests = <<>>
  /\ pc = <<>>
  /\ tmp = <<>>
  /\ outcome = <<>>
  /\ future = <<>>
  /\ results = <<>>
  /\ completed = 0
  /\ progress_log = <<>>
  /\ total_cost = 0
  /\ main_pc = "idle"
  /\ batches = 0
  /\ CardIdle
  /\ RestIdle

\* A call of _validate_image.
ValidateImageCall(image_data) ==
  /\ rule_call' = [op |-> "_validate_image", image_data |-> image_data,
                   result |-> ValidateImage(image_data)]
  /\ UNCHANGED <<openai_available, gemini_available, batchVars, engineVars,
                 cardVars, jobVars>>

\* A call of validate_business_card_image.
ValidateBusinessCardImageCall(image_data) ==
  /\ rule_call' = [op |-> "validate_business_card_image",
                   image_data |-> image_data,
                   result |-> validate_business_card_image(image_data)]
  /\ UNCHANGED <<openai_available, gemini_available, batchVars, engineVars,
                 cardVars, jobVars>>

\* ModernHybridWorkflow() and get_available_models() in one environment.
SetupClientsCall(openai_key, google_key, gemini_key) ==
  /\ rule_call' = [op |-> "setup_clients", openai_key |-> openai_key,
                   google_key |-> google_key, gemini_key |-> gemini_key,
                   engine |-> SetupClients(openai_key, google_key,
                                           gemini_key),
                   status |-> GetAvailableModels(openai_key, google_key,
                                                 gemini_key)]
  /\ UNCHANGED <<openai_available, gemini_available, batchVars, engineVars,
                 cardVars, jobVars>>

\* process_batch up to the submit loop: build the requests, sort them, and
\* submit them in that order.
ProcessBatchSubmits(concepts, sides, quality) ==
  /\ rule_call' = [op |-> "process_batch",
                   requests |-> BuildRequests(concepts, sides, quality),
                   submitted |-> SortByPriority(
                                   BuildRequests(concepts, sides, quality))]
  /\ UNCHANGED <<openai_available, gemini_available, batchVars, engineVars,
                 cardVars, jobVars>>

\* process_custom_batch up to the submit loop.
ProcessCustomBatchSubmits(priorities) ==
  /\ rule_call' = [op |-> "process_custom_batch",
                   requests |-> CustomRequests(priorities),
                   submitted |-> SortByPriority(CustomRequests(priorities))]
  /\ UNCHANGED <<openai_available, gemini_available, batchVars, engineVars,
                 cardVars, jobVars>>

RulesNext ==
  \/ \E image_data \in Images : ValidateImageCall(image_data)
  \/ \E image_data \in Images : ValidateBusinessCardImageCall(image_data)
  \/ \E openai_key \in KeyStates, google_key \in KeyStates,
        gemini_key \in KeyStates :
       SetupClientsCall(openai_key, google_key, gemini_key)
  \/ \E concepts \in ConceptLists, sides \in SideLists, quality \in Qualities :
       ProcessBatchSubmits(concepts, sides, quality)
  \/ \E priorities \in CustomLists : ProcessCustomBatchSubmits(priorities)

RulesSpec == RulesInit /\ [][RulesNext]_vars

\* ------------------------------------------------ job manager: actions
\* One action is what a coroutine does between two suspensions of the event
\* loop.  process_custom_batch never awaits anything that suspends, so while
\* a task is inside it nothing else runs.

\* A task is inside process_custom_batch.
Busy == \E w \in Tasks : worker[w] = "processing"

\* The tasks that have been created and have not exited.
LiveTasks == {w \in Tasks : worker[w] \in {"created", "waiting", "processing",
                                           "timed_out"}}

\* A job manager on a batch processor; nothing else is used.
JobInit == RulesInit

\* submit_batch_job: register the job, put it in the queue (the queue is
\* unbounded, so put does not suspend), create a task when below capacity.
\* Callers number their jobs in the order they submit them.
SubmitBatchJob(job_id) ==
  /\ ~Busy
  /\ active_jobs[job_id] = "none"
  /\ \A k \in JobIds : k < job_id => active_jobs[k] /= "none"
  /\ active_jobs' = [active_jobs EXCEPT ![job_id] = "queued"]
  /\ job_queue' = Append(job_queue, job_id)
  /\ IF active_job_count < max_concurrent_jobs
     THEN LET w == CHOOSE t \in Tasks :
                     /\ worker[t] = "none"
                     /\ \A u \in Tasks : worker[u] = "none" => t <= u
          IN worker' = [worker EXCEPT ![w] = "created"]
     ELSE UNCHANGED worker
  /\ UNCHANGED <<openai_available, gemini_available, active_job_count,
                 worker_job, cancelled, processed, rule_call, batchVars,
                 engineVars, cardVars>>

\* cancel_job: True for a queued job, whose status becomes cancelled; the
\* queue is left as it is.
CancelJob(job_id) ==
  /\ ~Busy
  /\ active_jobs[job_id] = "queued"
  /\ active_jobs' = [active_jobs EXCEPT ![job_id] = "cancelled"]
  /\ cancelled' = cancelled \cup {job_id}
  /\ UNCHANGED <<openai_available, gemini_available, job_queue,
                 active_job_count, worker, worker_job, processed, rule_call,
                 batchVars, engineVars, cardVars>>

\* _process_job_queue without the capacity check of lines 405-406.
WorkerStart_NoCapacityCheck(w) ==
  /\ ~Busy
  /\ worker[w] = "created"
  /\ active_job_count' = active_job_count + 1
  /\ worker' = [worker EXCEPT ![w] = "waiting"]
  /\ UNCHANGED <<openai_available, gemini_available, active_jobs, job_queue,
                 worker_job, cancelled, processed, rule_call, batchVars,
                 engineVars, cardVars>>

\* _process_job_queue, lines 405-414: return when at capacity, else count
\* the task and wait for a job.
WorkerStart(w) ==
  /\ ~Busy
  /\ worker[w] = "created"
  /\ IF active_job_count >= max_concurrent_jobs
     THEN /\ worker' = [worker EXCEPT ![w] = "exited"]
          /\ UNCHANGED active_job_count
     ELSE /\ active_job_count' = active_job_count + 1
          /\ worker' = [worker EXCEPT ![w] = "waiting"]
  /\ UNCHANGED <<openai_available, gemini_available, active_jobs, job_queue,
                 worker_job, cancelled, processed, rule_call, batchVars,
                 engineVars, cardVars>>

\* Lines 414-425: the task gets the next job of the queue, marks it
\* processing and hands its requests to process_custom_batch.
WorkerGet(w) ==
  /\ ~Busy
  /\ worker[w] = "waiting"
  /\ job_queue /= <<>>
  /\ LET job == Head(job_queue) IN
     /\ job_queue' = Tail(job_queue)
     /\ worker_job' = [worker_job EXCEPT ![w] = job]
     /\ active_jobs' = [active_jobs EXCEPT ![job] = "processing"]
     /\ processed' = Append(processed, job)
  /\ worker' = [worker EXCEPT ![w] = "processing"]
  /\ UNCHANGED <<openai_available, gemini_available, active_job_count,
                 cancelled, rule_call, batchVars, engineVars, cardVars>>

\* Lines 427-448: process_custom_batch returned (completed) or raised
\* (failed); the task waits for the next job.
WorkerFinish(w, returned) ==
  /\ worker[w] = "processing"
  /\ active_jobs' = [active_jobs EXCEPT ![worker_job[w]] =
                       IF returned THEN "completed" ELSE "failed"]
  /\ worker' = [worker EXCEPT ![w] = "waiting"]
  /\ UNCHANGED <<openai_available, gemini_available, job_queue,
                 active_job_count, worker_job, cancelled, processed,
                 rule_call, batchVars, engineVars, cardVars>>

\* The timeout of wait_for fires for a task that has waited on the empty
\* queue: the task is cancelled out of its get and will resume with
\* TimeoutError the next time the event loop runs it.  Until then it still
\* holds its slot, and a job put in the queue meanwhile stays there.
WorkerTimeout(w) ==
  /\ ~Busy
  /\ worker[w] = "waiting"
  /\ job_queue = <<>>
  /\ worker' = [worker EXCEPT ![w] = "timed_out"]
  /\ UNCHANGED <<openai_available, gemini_available, active_jobs, job_queue,
                 active_job_count, worker_job, cancelled, processed,
                 rule_call, batchVars, engineVars, cardVars>>

\* Lines 439-452: the task resumes with TimeoutError, breaks, and the
\* finally clause gives its slot back.
WorkerExit(w) ==
  /\ ~Busy
  /\ worker[w] = "timed_out"
  /\ worker' = [worker EXCEPT ![w] = "exited"]
  /\ active_job_count' = active_job_count - 1
  /\ UNCHANGED <<openai_available, gemini_available, active_jobs, job_queue,
                 worker_job, cancelled, processed, rule_call, batchVars,
                 engineVars, cardVars>>

JobNext ==
  \/ \E job_id \in JobIds : SubmitBatchJob(job_id)
  \/ \E job_id \in JobIds : CancelJob(job_id)
  \/ \E w \in Tasks : WorkerStart(w)
  \/ \E w \in Tasks : WorkerGet(w)
  \/ \E w \in Tasks, returned \in BOOLEAN : WorkerFinish(w, returned)
  \/ \E w \in Tasks : WorkerTimeout(w)
  \/ \E w \in Tasks : WorkerExit(w)

JobSpec == JobInit /\ [][JobNext]_vars

\* ------------------------------------------------------------- claims

\* generate_card calls in flight whose request names provider p.
InFlight(p) == {i \in Items : pc[i] = "call" /\ requests[i].model = p}

\* Workers that have incremented the counter of key k and not yet
\* decremented it.
Holders(k) ==
  {i \in Items : KeyOf(i) = k /\ pc[i] \in {"call", "decrement", "dec_write"}}

\* The provider generate_card selects for request i.
ServedBy(i) ==
  SelectModel(ModelOf(i), requests[i].quality, openai_available,
              gemini_available)

Finished == main_pc \in {"returned", "raised"}

RECURSIVE SumSuccessfulCost(_)
SumSuccessfulCost(rs) ==
  IF rs = <<>> THEN 0
  ELSE (IF Head(rs).success THEN Head(rs).cost_estimate ELSE 0)
       + SumSuccessfulCost(Tail(rs))

\* C1: in a batch whose requests all name the same provider, with
\* max_concurrent_per_model = 2, at most 2 generate_card calls are in flight
\* at any time, for any max_workers and any interleaving.
C1_ConcurrencyCap ==
  \A p \in RateLimitKeys :
    (\A i \in Items : requests[i].model = p) =>
      Cardinality(InFlight(p)) <= max_concurrent_per_model

\* C2: for any batch of N requests, N = 0 included, _process_requests
\* returns normally with exactly N results, each a success or a failure.
C2_ReturnsNResults ==
  Finished =>
    /\ main_pc = "returned"
    /\ Len(results) = Len(requests)
    /\ Cardinality({k \in 1..Len(results) : results[k].success})
         + Cardinality({k \in 1..Len(results) : ~results[k].success})
       = Len(requests)

\* C3: when generate_card raises for one item the batch is not aborted: it
\* returns one result per item, the item's result is a failure carrying the
\* exception text, and every other result is what that item's own
\* generate_card call returned.
C3_NoPartialAbort ==
  /\ \A k \in 1..Len(results) :
       LET i == results[k].req
           gen == outcome[i]
       IN /\ i \in Items
          /\ pc[i] = "collected"
          /\ \A l \in 1..Len(results) : results[l].req = i => l = k
          /\ gen.raised =>
               /\ ~results[k].success
               /\ results[k].error_message = gen.error_message
               /\ results[k].error_message /= NoneValue
          /\ ~gen.raised =>
               /\ results[k].success = gen.success
               /\ results[k].model_used = gen.model_used
               /\ results[k].cost_estimate = gen.cost_estimate
               /\ results[k].filepath = gen.filepath
               /\ results[k].error_message = gen.error_message
  /\ (Finished /\ \E i \in Items : outcome[i].raised) =>
       /\ main_pc = "returned"
       /\ Len(results) = Len(requests)
       /\ \A i \in Items : \E k \in 1..Len(results) : results[k].req = i

\* C3 witness: a returned batch in which one call raised and another item
\* succeeded.
C3_Witness ==
  /\ main_pc = "returned"
  /\ \E i, j \in Items :
       /\ outcome[i].raised
       /\ i /= j
       /\ \E k \in 1..Len(results) : results[k].req = j /\ results[k].success

\* C4: once a batch has finished every provider's counter is back at 0.
C4_CountersBalanced ==
  Finished => \A k \in RateLimitKeys : active_requests[k] = 0

\* C5: active_requests[p] always equals the number of workers that have
\* incremented the counter of p and not yet decremented it.
C5_CounterCountsHolders ==
  \A k \in RateLimitKeys : active_requests[k] = Cardinality(Holders(k))

\* C6: while an item's generate_card call is in flight, the counter of the
\* provider that serves the item counts the item.
C6_ServingProviderCounts ==
  \A i \in Items :
    pc[i] = "call" =>
      /\ KeyOf(i) = ServedBy(i)
      /\ active_requests[ServedBy(i)] >= 1

\* C7: the total cost of a finished batch is the sum of cost_estimate over
\* the successful results, and no result has a negative cost_estimate.
C7_TotalCost ==
  /\ \A k \in 1..Len(results) : results[k].cost_estimate >= 0
  /\ Finished => total_cost = SumSuccessfulCost(results)

\* C7 witness: a returned batch with a failed result and a successful one
\* that cost something.
C7_Witness ==
  /\ main_pc = "returned"
  /\ total_cost > 0
  /\ \E k \in 1..Len(results) : ~results[k].success
  /\ \E k \in 1..Len(results) : results[k].success

\* C8: the progress callback is invoked once per completed item, failed or
\* not, with completed/N*100; the values never decrease, stay within
\* [0, 100], and the last one is 100.
C8_Progress ==
  /\ Len(progress_log) = completed
  /\ completed = Cardinality({i \in Items : pc[i] = "collected"})
  /\ \A k \in 1..Len(progress_log) :
       /\ progress_log[k] = (k * 100000) \div Len(requests)
       /\ progress_log[k] >= 0
       /\ progress_log[k] <= 100000
       /\ k > 1 => progress_log[k - 1] <= progress_log[k]
  /\ main_pc = "returned" =>
       /\ Len(progress_log) = Len(requests)
       /\ progress_log[Len(progress_log)] = 100000

\* C8 witness: a returned batch of three items, one of them failed.
C8_Witness ==
  /\ main_pc = "returned"
  /\ Len(progress_log) = 3
  /\ \E k \in 1..Len(results) : ~results[k].success

\* The auto rule as the specification words it.
AutoRule(quality, oa, ga) ==
  IF quality = "production"
  THEN (IF oa THEN GPT_IMAGE_1 ELSE GEMINI_FLASH)
  ELSE (IF ga THEN GEMINI_FLASH ELSE GPT_IMAGE_1)

Available(m) ==
  IF m = GPT_IMAGE_1 THEN openai_available ELSE gemini_available

Selected == card_pc \notin {"idle", "select"} /\ Len(steps) >= 1

\* C11: provider selection returns no provider exactly when neither provider
\* is available, for every requested model and quality; generate_card then
\* returns the "no suitable model" failure without calling a provider, and
\* in every other case it goes on to the selected provider.
C11_SelectionFailsIffNoProvider ==
  /\ \A m \in ModelType, q \in Qualities :
       (SelectModel(m, q, openai_available, gemini_available) = NoneValue)
         <=> ~(openai_available \/ gemini_available)
  /\ Selected =>
       /\ (card_selected = NoneValue)
            <=> ~(openai_available \/ gemini_available)
       /\ card_selected = NoneValue =>
            /\ card_pc = "done"
            /\ ~card_result.raised
            /\ ~card_result.success
            /\ card_result.error_message =
                 "No suitable model available for request"
            /\ provider_calls = <<>>
            /\ steps = <<"select">>
       /\ (card_pc = "done" /\ card_selected /= NoneValue) =>
            /\ Len(provider_calls) >= 1
            /\ card_result.error_message /=
                 "No suitable model available for request"

C11_Witness ==
  /\ card_pc = "done"
  /\ ~openai_available /\ ~gemini_available
  /\ steps = <<"select">>
  /\ ~card_result.success
  /\ provider_calls = <<>>

\* C12: the availability flags are those set at construction, whatever
\* generate_card calls and batches have run since, so _select_model answers
\* every (model, quality) as it did right after construction.
C12_SelectionHasNoHiddenState ==
  wf_state = "ready" =>
    /\ <<openai_available, gemini_available>> = env_keys
    /\ \A m \in ModelType, q \in Qualities :
         SelectModel(m, q, openai_available, gemini_available)
           = SelectModel(m, q, env_keys[1], env_keys[2])

\* A batch has returned in which a generate_card call failed on the provider
\* that selection still names for the same request.
C12_Witness ==
  /\ main_pc = "returned"
  /\ \E i \in Items :
       /\ Called(i)
       /\ ~outcome[i].raised
       /\ ~outcome[i].success
       /\ outcome[i].model_used =
            SelectModel(ModelOf(i), requests[i].quality, openai_available,
                        gemini_available)

\* C13: generate_card never raises: whatever goes wrong, the call ends with a
\* GenerationResult whose success is False and which carries an error
\* message.
C13_NeverRaises ==
  card_pc = "done" =>
    /\ ~card_result.raised
    /\ card_env /= "ok" =>
         /\ ~card_result.success
         /\ card_result.error_message /= NoneValue

\* The order of the steps of generate_card.
CardStepOrder == <<"select", "prompt", "call", "validate", "persist">>

\* The steps taken so far are a prefix of the order; invalid bytes end the
\* call after the validate step, with a failure.
C14_Order ==
  /\ Len(steps) <= Len(CardStepOrder)
  /\ \A k \in 1..Len(steps) : steps[k] = CardStepOrder[k]
  /\ (card_pc = "done" /\ card_env = "invalid_image") =>
       /\ ~card_result.success
       /\ steps = <<"select", "prompt", "call", "validate">>

\* C14: the steps of one generate_card call run in the order select, prompt,
\* provider call, validate, persist; a file is written only by the persist
\* step, which runs only after validation succeeded, and a call whose bytes
\* fail validation returns a failure and writes nothing.
C14_StepsInOrder ==
  /\ []C14_Order
  /\ [][writes' /= writes =>
          /\ steps = <<"select", "prompt", "call", "validate">>
          /\ steps' = CardStepOrder
          /\ card_env = "ok"
          /\ Len(writes') = Len(writes) + 1]_vars

C14_Witness ==
  /\ card_pc = "done"
  /\ card_env = "invalid_image"
  /\ ~card_result.success
  /\ writes = <<>>

\* C15: a GenerationResult returned by generate_card has, when success,
\* image data, a file path and model_used and no error message; when not
\* success, no image data, no file path and an error message; and when a
\* provider was selected model_used is that provider, the one that was
\* called.
C15_ResultShape ==
  (card_pc = "done" /\ ~card_result.raised) =>
    /\ card_result.success =>
         /\ card_result.image_data
         /\ card_result.filepath /= NoneValue
         /\ card_result.model_used /= NoneValue
         /\ card_result.error_message = NoneValue
         /\ Len(writes) >= 1
         /\ writes[Len(writes)].dir = card_result.filepath
    /\ ~card_result.success =>
         /\ ~card_result.image_data
         /\ card_result.filepath = NoneValue
         /\ card_result.error_message /= NoneValue
    /\ card_selected /= NoneValue =>
         /\ card_result.model_used = card_selected
         /\ provider_calls = <<card_selected>>
    /\ card_selected = NoneValue => card_result.model_used = NoneValue

\* A call whose provider delivered valid bytes and whose save failed.
C15_Witness ==
  /\ card_pc = "done"
  /\ card_env = "save_failed"
  /\ ~card_result.success
  /\ card_result.model_used = GEMINI_FLASH
  /\ provider_calls = <<GEMINI_FLASH>>

\* C16: one generate_card invocation calls a provider at most once; when
\* that call fails, the result is a failure naming the provider that was
\* called, and the other provider is not tried.
C16_NoRetry ==
  /\ Len(provider_calls) <= 1
  /\ (card_pc = "done"
      /\ card_env \in {"transport_error", "no_image_data", "invalid_image"}) =>
       /\ ~card_result.raised
       /\ ~card_result.success
       /\ provider_calls = <<card_selected>>
       /\ card_result.model_used = provider_calls[1]

\* The call to GPT Image 1 failed while Gemini was available.
C16_Witness ==
  /\ card_pc = "done"
  /\ card_env = "transport_error"
  /\ openai_available /\ gemini_available
  /\ provider_calls = <<GPT_IMAGE_1>>
  /\ ~card_result.success

\* C17: with both providers available and model AUTO, a successful
\* generate_card estimates 0.005 for draft (Gemini), 0.07 for review (GPT
\* Image 1 medium) and 0.19 for production (GPT Image 1 high).
C17_AutoCostByQuality ==
  (card_pc = "done" /\ card_result.success /\ card.model = AUTO
   /\ openai_available /\ gemini_available) =>
    card_result.cost_estimate =
      CASE card.quality = "draft" -> COSTS.gemini_flash
        [] card.quality = "review" -> COSTS.gpt_image_1_medium
        [] OTHER -> COSTS.gpt_image_1_high

\* C18: generate_full_concept_set returns an entry for 'front' and for
\* 'back' whatever each side's outcome, the failed side with success False.
C18_BothSidesReturned ==
  set_pc = "returned" =>
    /\ set_results.keys = Sides
    /\ \A side \in Sides :
         LET r == IF side = "front" THEN set_results.front
                  ELSE set_results.back
         IN r /= NoResult

\* C19: no two successful generate_card calls write the same file path.
C19_NoOverwrite ==
  \A i, j \in 1..Len(writes) : i /= j => writes[i] /= writes[j]

\* C20: a generate_card call in progress always has a next step, so it comes
\* to return an outcome; it never stays waiting for a provider.
C20_CallAlwaysProceeds ==
  card_pc /= "idle" => ENABLED CardStep

\* C21: _validate_image accepts exactly the bytes that open as an image
\* whose width and height are both at least 512 and whose mode is RGB or
\* RGBA, raises for every other input, and leaves the bytes as they were.
C21_ValidatorAccepts ==
  rule_call.op = "_validate_image" =>
    /\ ~rule_call.result.raised
         <=> /\ rule_call.image_data.opens
             /\ rule_call.image_data.width >= 512
             /\ rule_call.image_data.height >= 512
             /\ rule_call.image_data.mode \in {"RGB", "RGBA"}
    /\ rule_call.result.image_data = rule_call.image_data

\* An image of exactly 512 x 512 pixels is accepted.
C21_Witness ==
  /\ rule_call.op = "_validate_image"
  /\ rule_call.image_data.width = 512
  /\ rule_call.image_data.height = 512
  /\ ~rule_call.result.raised

\* C24: for bytes that do not open as an image, whatever their length, every
\* check of validate_business_card_image is False and nothing is raised; and
\* for every input overall_valid is the conjunction of the five checks.
C24_UndecodableFailsEveryCheck ==
  rule_call.op = "validate_business_card_image" =>
    LET r == rule_call.result IN
    /\ ~r.raised
    /\ r.overall_valid <=> (r.min_resolution /\ r.color_mode /\ r.aspect_ratio
                            /\ r.file_size /\ r.print_dpi)
    /\ ~rule_call.image_data.opens =>
         /\ ~r.min_resolution
         /\ ~r.color_mode
         /\ ~r.aspect_ratio
         /\ ~r.file_size
         /\ ~r.print_dpi
         /\ ~r.overall_valid

\* C22: the file of a successful generate_card lies in the production
\* directory exactly when the quality is production and in the drafts
\* directory otherwise, and its name carries the call's concept and side, GPT1
\* or GEMINI for the provider that served the call, and the timestamp.
C22_DirectoryAndName ==
  (card_pc = "done" /\ card_result.success) =>
    /\ Len(writes) >= 1
    /\ LET w == writes[Len(writes)] IN
       /\ w.dir = "production" <=> card.quality = "production"
       /\ w.dir = "drafts" <=> card.quality /= "production"
       /\ w.dir = card_result.filepath
       /\ w.concept = card.concept
       /\ w.side = card.side
       /\ w.model_short = "GPT1" <=> provider_calls = <<GPT_IMAGE_1>>
       /\ w.model_short = "GEMINI" <=> provider_calls = <<GEMINI_FLASH>>
       /\ w.timestamp <= Timestamp(clock)

\* A review card served by GPT Image 1 was saved.
C22_Witness ==
  /\ card_pc = "done"
  /\ card_result.success
  /\ card.quality = "review"
  /\ provider_calls = <<GPT_IMAGE_1>>
  /\ writes[Len(writes)].dir = "drafts"

\* C26: a failed outcome of generate_card has cost_estimate 0, also when the
\* provider delivered and validation or the save failed afterwards; a cost
\* other than 0 comes only with success.
C26_FailedCostsNothing ==
  card_pc = "done" =>
    /\ ~card_result.success => card_result.cost_estimate = 0
    /\ card_result.cost_estimate /= 0 => card_result.success
    /\ card_result.success => card_result.cost_estimate > 0

\* GPT Image 1 delivered valid bytes and the save failed.
C26_Witness ==
  /\ card_pc = "done"
  /\ card_env = "save_failed"
  /\ provider_calls = <<GPT_IMAGE_1>>
  /\ steps = CardStepOrder
  /\ card_result.cost_estimate = 0

\* C23: the flags a constructed workflow has agree with the pair
\* get_available_models() returns in the same environment: a flag is set
\* exactly when a key for the provider is present and well-formed.
C23_FlagsAgreeWithStatus ==
  (rule_call.op = "setup_clients" /\ ~rule_call.engine.raised) =>
    /\ rule_call.engine.openai_available = rule_call.status[1]
    /\ rule_call.engine.gemini_available = rule_call.status[2]

\* C25: the requests are submitted in descending order of priority, those of
\* equal priority in the order they were given; and _calculate_priority is
\* strictly higher for production than review than draft at equal concept
\* and side, and strictly higher for front than back at equal concept and
\* quality.
C25_PriorityOrder ==
  /\ rule_call.op \in {"process_batch", "process_custom_batch"} =>
       LET given == rule_call.requests
           sub == rule_call.submitted
       IN /\ Len(sub) = Len(given)
          /\ \A k \in 1..Len(given) : \E i \in 1..Len(sub) : sub[i] = given[k]
          /\ \A i, j \in 1..Len(sub) :
               i < j =>
                 \/ sub[i].priority > sub[j].priority
                 \/ sub[i].priority = sub[j].priority /\ sub[i].id < sub[j].id
  /\ rule_call.op = "process_batch" =>
       \A k \in 1..Len(rule_call.requests) :
         LET r == rule_call.requests[k] IN
         /\ r.priority = CalculatePriority(r.concept, r.side, r.quality)
         /\ CalculatePriority(r.concept, r.side, "production")
              > CalculatePriority(r.concept, r.side, "review")
         /\ CalculatePriority(r.concept, r.side, "review")
              > CalculatePriority(r.concept, r.side, "draft")
         /\ CalculatePriority(r.concept, "front", r.quality)
              > CalculatePriority(r.concept, "back", r.quality)

\* Two requests of equal priority were given before one of higher priority.
C25_Witness ==
  /\ rule_call.op = "process_custom_batch"
  /\ Len(rule_call.requests) = 3
  /\ rule_call.requests[1].priority = rule_call.requests[2].priority
  /\ rule_call.requests[3].priority > rule_call.requests[1].priority
  /\ rule_call.submitted[1].id = 3
  /\ rule_call.submitted[2].id = 1
  /\ rule_call.submitted[3].id = 2

\* C27: the constructor raises exactly when neither key is present, so a
\* constructed workflow has a provider available, and generate_card on it
\* never returns the 'No suitable model available' failure.
C27_ConstructedHasProvider ==
  /\ wf_state = "ctor_raised" => ~env_keys[1] /\ ~env_keys[2]
  /\ wf_state = "ready" =>
       /\ env_keys[1] \/ env_keys[2]
       /\ openai_available \/ gemini_available
  /\ last_call.op = "_select_model" => last_call.chosen /= NoneValue
  /\ last_call.op = "generate_card" =>
       last_call.result.error_message
         /= "No suitable model available for request"

\* Only the OpenAI key is present; a card requested from Gemini was served
\* by GPT Image 1.
C27_Witness ==
  /\ wf_state = "ready"
  /\ env_keys = <<TRUE, FALSE>>
  /\ last_call.op = "generate_card"
  /\ last_call.requested = GEMINI_FLASH
  /\ last_call.result.success
  /\ last_call.result.model_used = GPT_IMAGE_1

\* The tasks that hold a slot: counted in, not yet through the finally.
SlotHolders == {w \in Tasks : worker[w] \in {"waiting", "processing",
                                             "timed_out"}}

\* C28: active_job_count is never negative and never above
\* max_concurrent_jobs, at most that many jobs are processing at once, and
\* the count is 0 once every task has exited.
C28_JobCountBounded ==
  /\ active_job_count >= 0
  /\ active_job_count <= max_concurrent_jobs
  /\ active_job_count = Cardinality(SlotHolders)
  /\ Cardinality({j \in JobIds : active_jobs[j] = "processing"})
       <= active_job_count
  /\ LiveTasks = {} => active_job_count = 0

\* Three tasks were created; two got a slot, worked and exited, the third
\* found the manager at capacity.
C28_Witness ==
  /\ \A w \in Tasks : worker[w] = "exited"
  /\ active_job_count = 0
  /\ Len(processed) >= 2
  /\ \E w1, w2 \in Tasks : w1 /= w2 /\ worker_job[w1] /= 0 /\ worker_job[w2] /= 0
  /\ \E w \in Tasks : worker_job[w] = 0

\* C29: a job for which cancel_job returned True stays cancelled and its
\* requests are never handed to the batch processor.
C29_CancelledNeverStarted ==
  \A j \in cancelled :
    /\ active_jobs[j] = "cancelled"
    /\ \A k \in 1..Len(processed) : processed[k] /= j

\* C30: a submitted job that was not cancelled is not left queued with no
\* task to pick it up.
C30_QueuedJobHasTask ==
  \A j \in JobIds : active_jobs[j] = "queued" => LiveTasks /= {}

====
